---------------------------- MODULE Spec2Model ----------------------------
(***************************************************************************)
(* Model of zeppelin/converters/markdown.py: the MarkdownConverter that    *)
(* turns a Zeppelin notebook (parsed JSON) into Markdown lines, with its   *)
(* two schema variants LegacyConverter and NewConverter.                   *)
(*                                                                         *)
(* A Python str is a sequence of characters, each character a one-letter   *)
(* TLA+ string; the backquote, which a TLA+ string cannot hold, is the     *)
(* character BQ.  Python's None is the value None below.  An exception     *)
(* that leaves a method is recorded in the field exc and ends the run.     *)
(***************************************************************************)
EXTENDS Integers, Sequences, FiniteSets, TLC

VARIABLES
    variant,        \* "legacy" (LegacyConverter) or "new" (NewConverter)
    directory,      \* self.directory
    index,          \* self.index
    user,           \* self.user
    date_created,   \* self.date_created
    date_updated,   \* self.date_updated
    language,       \* self.language
    out,            \* self.out
    files,          \* the files opened for writing by build_image, in order
    fout,           \* what build_output wrote to fout (NotWritten before)
    exc,            \* "none", or the exception that left a method
    pc,             \* "idle", or the position of convert in its code
    para,           \* the keys of the current paragraph that later steps read
    nparagraphs,    \* paragraphs taken from text['paragraphs'] so far
    ncalls,         \* methods called on the object from outside convert
    last,           \* history: the last method called, its input, the state before
    seen_created,   \* history: the dates passed to process_date_created
    seen_updated,   \* history: the dates passed to process_date_updated
    found,          \* history: the messages of build_image that held an image
    origin          \* history: for each entry of out, <<paragraph number, key>>

vars == <<variant, directory, index, user, date_created, date_updated, language,
          out, files, fout, exc, pc, para, nparagraphs, ncalls, last,
          seen_created, seen_updated, found, origin>>

(***************************************************************************)
(* Bounds of the model.                                                    *)
(***************************************************************************)
MaxParagraphs == 2
MaxDateCalls == 3
MaxInputCalls == 1
MaxTextLen == 2
MaxRowCalls == 1
MaxRowLen == 3
MaxTableCalls == 2
MaxImageCalls == 11
MaxResultCalls == 2

(***************************************************************************)
(* Python str operations.                                                  *)
(***************************************************************************)
BQ == "BQ"
None == <<"None">>
Whitespace == {" ", "\t", "\n"}

RECURSIVE lstrip(_)
lstrip(s) ==
    IF s = <<>> THEN <<>>
    ELSE IF Head(s) \in Whitespace THEN lstrip(Tail(s)) ELSE s

RECURSIVE rstrip(_)
rstrip(s) ==
    IF s = <<>> THEN <<>>
    ELSE IF s[Len(s)] \in Whitespace THEN rstrip(SubSeq(s, 1, Len(s) - 1)) ELSE s

strip(s) == rstrip(lstrip(s))

startswith(s, c) == s # <<>> /\ Head(s) = c

\* The length of the longest prefix of s with no character of the set stop.
RECURSIVE span(_, _)
span(s, stop) ==
    IF s = <<>> \/ Head(s) \in stop THEN 0 ELSE 1 + span(Tail(s), stop)

\* paragraph.split(None, 1): at most two pieces, cut at the first run of
\* whitespace after the first word; leading whitespace is dropped and a
\* remainder of whitespace alone is no piece.
split_maxsplit1(s) ==
    LET t == lstrip(s)
        n == span(t, Whitespace)
        rest == lstrip(SubSeq(t, n + 1, Len(t)))
    IN  IF t = <<>> THEN <<>>
        ELSE IF rest = <<>> THEN <<SubSeq(t, 1, n)>>
        ELSE <<SubSeq(t, 1, n), rest>>

\* s.split(sep) for a one-character separator: every piece, empty ones kept.
RECURSIVE split(_, _)
split(s, sep) ==
    LET n == span(s, {sep})
    IN  IF n = Len(s) THEN <<s>>
        ELSE <<SubSeq(s, 1, n)>> \o split(SubSeq(s, n + 2, Len(s)), sep)

\* sep.join(parts)
RECURSIVE join(_, _)
join(parts, sep) ==
    IF parts = <<>> THEN <<>>
    ELSE IF Len(parts) = 1 THEN parts[1]
    ELSE parts[1] \o sep \o join(Tail(parts), sep)

\* str(n) of a natural number, as '{1}'.format(self.index) writes it.
Digit(d) == <<"0", "1", "2", "3", "4", "5", "6", "7", "8", "9">>[d + 1]

RECURSIVE str_int(_)
str_int(n) == IF n < 10 THEN <<Digit(n)>> ELSE str_int(n \div 10) \o <<Digit(n % 10)>>


(***************************************************************************)
(* The converter object.  Every method below is an operator from the       *)
(* object before the call to the object after it; the fields files and exc *)
(* carry the method's effect on the disk and the exception it raised.      *)
(***************************************************************************)
Self ==
    [variant |-> variant, directory |-> directory, index |-> index, user |-> user,
     date_created |-> date_created, date_updated |-> date_updated,
     language |-> language, out |-> out, files |-> files, exc |-> exc]

Raise(self, e) == [self EXCEPT !.exc = e]

\* name.method(...) of an object on which an earlier statement raised: skipped.
Alive(self) == self.exc = "none"

(***************************************************************************)
(* Dates.  date_created and date_updated hold the str 'N/A' or a datetime. *)
(* A datetime is the hour of its day (all samples are of 2017-02-28) and   *)
(* whether its text carried a UTC offset: dateutil's parse gives a naive   *)
(* datetime for a text without one and an aware one, tzinfo tzutc(), for a *)
(* text with +0000.  parse is given by its value on the sample texts, two  *)
(* of which name the same naive instant.                                   *)
(***************************************************************************)
NA == [isstr |-> TRUE, hour |-> 0, aware |-> FALSE]
datetime(h, tz) == [isstr |-> FALSE, hour |-> h, aware |-> tz]

DateTexts ==
    {"Feb 28, 2017 3:44:54 PM", "2017-02-28T15:44:54", "Feb 28, 2017 4:44:54 PM",
     "2017-02-28T17:44:54", "2017-02-28T14:44:54+0000", "2017-02-28T16:44:54+0000"}
BadDateText == "yesterday-ish"

parse(text) ==
    CASE text = "Feb 28, 2017 3:44:54 PM" -> [ok |-> TRUE, date |-> datetime(15, FALSE)]
      [] text = "2017-02-28T15:44:54" -> [ok |-> TRUE, date |-> datetime(15, FALSE)]
      [] text = "Feb 28, 2017 4:44:54 PM" -> [ok |-> TRUE, date |-> datetime(16, FALSE)]
      [] text = "2017-02-28T17:44:54" -> [ok |-> TRUE, date |-> datetime(17, FALSE)]
      [] text = "2017-02-28T14:44:54+0000" -> [ok |-> TRUE, date |-> datetime(14, TRUE)]
      [] text = "2017-02-28T16:44:54+0000" -> [ok |-> TRUE, date |-> datetime(16, TRUE)]
      [] OTHER -> [ok |-> FALSE, date |-> NA]

\* str(date): 'N/A' as it is, a datetime as 'YYYY-MM-DD HH:MM:SS', with
\* '+00:00' after it if it is aware.
str_date(d) ==
    IF d.isstr THEN <<"N", "/", "A">>
    ELSE <<"2", "0", "1", "7", "-", "0", "2", "-", "2", "8", " ">>
         \o str_int(d.hour) \o <<":", "4", "4", ":", "5", "4">>
         \o (IF d.aware THEN <<"+", "0", "0", ":", "0", "0">> ELSE <<>>)

\* a < b and a > b of two datetimes raise TypeError ("can't compare
\* offset-naive and offset-aware datetimes") unless both are naive or both
\* aware.
comparable(a, b) == a.aware = b.aware

process_date_created(self, text) ==
    LET r == parse(text)
        s1 == IF self.date_created = NA
              THEN [self EXCEPT !.date_created = r.date] ELSE self
    IN  IF ~r.ok THEN Raise(self, "ValueError")
        ELSE IF ~comparable(r.date, s1.date_created) THEN Raise(s1, "TypeError")
        ELSE IF r.date.hour < s1.date_created.hour
             THEN [s1 EXCEPT !.date_created = r.date] ELSE s1

process_date_updated(self, text) ==
    LET r == parse(text)
        s1 == IF self.date_updated = NA
              THEN [self EXCEPT !.date_updated = r.date] ELSE self
    IN  IF ~r.ok THEN Raise(self, "ValueError")
        ELSE IF ~comparable(r.date, s1.date_updated) THEN Raise(s1, "TypeError")
        ELSE IF r.date.hour > s1.date_updated.hour
             THEN [s1 EXCEPT !.date_updated = r.date] ELSE s1

(***************************************************************************)
(* Input paragraphs: build_markdown, build_code, process_input.            *)
(***************************************************************************)
FENCE == <<BQ, BQ, BQ>>
SCALA == <<"s", "c", "a", "l", "a">>
PYTHON == <<"p", "y", "t", "h", "o", "n">>
PYSPARK == <<"p", "y", "s", "p", "a", "r", "k">>
MD == <<"m", "d">>

build_markdown(self, lang, body) ==
    IF body # None THEN [self EXCEPT !.out = Append(@, body)] ELSE self

build_code(self, lang, body) ==
    LET s1 == [self EXCEPT !.out = Append(@, FENCE \o lang)]
        s2 == build_markdown(s1, lang, body)
    IN  [s2 EXCEPT !.out = Append(@, FENCE)]

\* bool(self.language): None and '' are false.
truthy(s) == s # None /\ s # <<>>

process_input_unstripped(self, paragraph) ==
    LET pieces == split_maxsplit1(paragraph)
        lang0 == IF Len(pieces) = 2 THEN pieces[1] ELSE paragraph
        body0 == IF Len(pieces) = 2 THEN pieces[2] ELSE None
        directive == startswith(lang0, "%")
        lang == IF directive THEN Tail(lang0)
                ELSE IF truthy(self.language) THEN self.language ELSE SCALA
        body == IF directive THEN body0 ELSE strip(paragraph)
    IN  IF lang = MD THEN build_markdown(self, lang, body)
        ELSE build_code(self, IF lang = PYSPARK THEN PYTHON ELSE lang, body)

process_input(self, paragraph) ==
    LET pieces == split_maxsplit1(paragraph)
        \* lang, body = paragraph.split(None, 1), or paragraph, None on ValueError
        lang0 == IF Len(pieces) = 2 THEN pieces[1] ELSE paragraph
        body0 == IF Len(pieces) = 2 THEN pieces[2] ELSE None
        directive == startswith(strip(lang0), "%")
        lang == IF directive THEN Tail(strip(lang0))
                ELSE IF truthy(self.language) THEN self.language ELSE SCALA
        body == IF directive THEN body0 ELSE strip(paragraph)
    IN  IF lang = MD THEN build_markdown(self, lang, body)
        ELSE build_code(self, IF lang = PYSPARK THEN PYTHON ELSE lang, body)

(***************************************************************************)
(* process_config.  A config is a record that may have the key editorMode. *)
(***************************************************************************)
MODE_SCALA == <<"a", "c", "e", "/", "m", "o", "d", "e", "/", "s", "c", "a", "l", "a">>
MODE_PYTHON == <<"a", "c", "e", "/", "m", "o", "d", "e", "/", "p", "y", "t", "h", "o", "n">>
MODE_TEXT == <<"a", "c", "e", "/", "m", "o", "d", "e", "/", "t", "e", "x", "t">>
MODE_MARKDOWN == <<"a", "c", "e", "/", "m", "o", "d", "e", "/", "m", "a", "r", "k", "d", "o", "w", "n">>
MODE_SQL == <<"a", "c", "e", "/", "m", "o", "d", "e", "/", "s", "q", "l">>

process_config(self, config) ==
    IF "editorMode" \notin DOMAIN config THEN self
    ELSE IF config.editorMode = MODE_SCALA THEN [self EXCEPT !.language = SCALA]
    ELSE IF config.editorMode = MODE_PYTHON THEN [self EXCEPT !.language = PYTHON]
    ELSE self

(***************************************************************************)
(* create_md_row.  A row is a str or a list of str:                        *)
(* [isstr |-> TRUE, val |-> the str] or [isstr |-> FALSE, val |-> the list]*)
(***************************************************************************)
StrRow(s) == [isstr |-> TRUE, val |-> s]
ListRow(l) == [isstr |-> FALSE, val |-> l]

\* The loop  for col in cols: col_md += col + '|'
RECURSIVE col_md(_)
col_md(cols) ==
    IF cols = <<>> THEN <<>> ELSE Head(cols) \o <<"|">> \o col_md(Tail(cols))

\* The loop  for col in cols: underline_md += '-|'
RECURSIVE underline_md(_)
underline_md(cols) ==
    IF cols = <<>> THEN <<>> ELSE <<"-", "|">> \o underline_md(Tail(cols))

create_md_row_short(self, row, header) ==
    LET cols == IF row.isstr THEN split(row.val, "\t") ELSE row.val
        line == <<"|">> \o col_md(cols)
        under == <<"|">> \o underline_md(Tail(cols))
    IN  IF row.val = <<>> THEN self
        ELSE IF Len(cols) = 1 THEN [self EXCEPT !.out = Append(@, cols[1])]
        ELSE IF header THEN [self EXCEPT !.out = Append(@, line \o <<"\n">> \o under)]
        ELSE [self EXCEPT !.out = Append(@, line)]

create_md_row(self, row, header) ==
    LET cols == IF row.isstr THEN split(row.val, "\t") ELSE row.val
        line == <<"|">> \o col_md(cols)
        under == <<"|">> \o underline_md(cols)
    IN  IF row.val = <<>> THEN self
        ELSE IF Len(cols) = 1 THEN [self EXCEPT !.out = Append(@, cols[1])]
        ELSE IF header THEN [self EXCEPT !.out = Append(@, line \o <<"\n">> \o under)]
        ELSE [self EXCEPT !.out = Append(@, line)]

(***************************************************************************)
(* process_title, build_header, build_output.                              *)
(***************************************************************************)
process_title(self, text) == [self EXCEPT !.out = Append(@, <<"#", "#", "#", "#", " ">> \o text)]

header_lines(self, title) ==
    <<<<"-", "-", "-">>,
      <<"t", "i", "t", "l", "e", ":", " ">> \o title,
      <<"a", "u", "t", "h", "o", "r", "(", "s", ")", ":", " ">> \o self.user,
      <<"t", "a", "g", "s", ":", " ">>,
      <<"c", "r", "e", "a", "t", "e", "d", "_", "a", "t", ":", " ">> \o str_date(self.date_created),
      <<"u", "p", "d", "a", "t", "e", "d", "_", "a", "t", ":", " ">> \o str_date(self.date_updated),
      <<"-", "-", "-">>>>

build_header_after(self, title) == [self EXCEPT !.out = @ \o header_lines(self, title)]

build_header(self, title) == [self EXCEPT !.out = header_lines(self, title) \o @]

\* What build_output writes to fout.
build_output(self) == join(self.out, <<"\n">>)

(***************************************************************************)
(* Output handlers: build_repl_result, build_table, build_image.           *)
(***************************************************************************)
build_repl_result(self, msg) ==
    LET parts == split(msg, "\n")
        lines == [i \in 1..Len(parts) |-> <<"#", " ">> \o strip(parts[i])]
    IN  build_code(self, PYTHON, join(lines, <<"\n">>))

\* Sample TABLE messages, and json.loads on them.
TBL_TSV == <<"a", "\t", "b", "\n", "1", "\t", "2">>
TBL_WORD == <<"x">>
TBL_NUMBER == <<"5">>
TBL_LIST == <<"[", "]">>
TBL_STRING == <<"\"", "a", "\"">>
TBL_NULL == <<"n", "u", "l", "l">>
TBL_ALL == <<"{", "\"", "d", "a", "t", "a", "\"", ":", "[", "[", "\"", "a", "\"", ",", "\"", "b", "\"", "]", ",", "[", "\"", "1", "\"", ",", "\"", "2", "\"", "]", "]", ",", "\"", "e", "x", "c", "e", "e", "d", "e", "d", "\"", ":", "-", "1", "}">>
TBL_CUT == <<"{", "\"", "d", "a", "t", "a", "\"", ":", "[", "\"", "a", "\"", ",", "\"", "1", "\"", ",", "\"", "3", "\"", "]", ",", "\"", "e", "x", "c", "e", "e", "d", "e", "d", "\"", ":", "0", "}">>
TBL_NODATA == <<"{", "\"", "d", "a", "t", "a", "\"", ":", "[", "]", ",", "\"", "e", "x", "c", "e", "e", "d", "e", "d", "\"", ":", "-", "1", "}">>
TBL_NOEXCEEDED == <<"{", "\"", "d", "a", "t", "a", "\"", ":", "[", "[", "\"", "a", "\"", "]", "]", "}">>

TableMsgs ==
    {TBL_TSV, TBL_WORD, TBL_NUMBER, TBL_LIST, TBL_STRING, TBL_NULL, TBL_ALL, TBL_CUT,
     TBL_NODATA, TBL_NOEXCEEDED}

\* json.loads(msg): ok FALSE is a JSONDecodeError (a ValueError); kind is the
\* Python type of the value and val, for a dict, the dict.
json_loads(msg) ==
    CASE msg = TBL_NUMBER -> [ok |-> TRUE, kind |-> "int", val |-> <<>>]
      [] msg = TBL_LIST -> [ok |-> TRUE, kind |-> "list", val |-> <<>>]
      [] msg = TBL_STRING -> [ok |-> TRUE, kind |-> "str", val |-> <<>>]
      [] msg = TBL_NULL -> [ok |-> TRUE, kind |-> "NoneType", val |-> <<>>]
      [] msg = TBL_ALL ->
            [ok |-> TRUE, kind |-> "dict",
             val |-> [data |-> <<ListRow(<<<<"a">>, <<"b">>>>), ListRow(<<<<"1">>, <<"2">>>>)>>,
                      exceeded |-> -1]]
      [] msg = TBL_CUT ->
            [ok |-> TRUE, kind |-> "dict",
             val |-> [data |-> <<StrRow(<<"a">>), StrRow(<<"1">>), StrRow(<<"3">>)>>,
                      exceeded |-> 0]]
      [] msg = TBL_NODATA ->
            [ok |-> TRUE, kind |-> "dict", val |-> [data |-> <<>>, exceeded |-> -1]]
      [] msg = TBL_NOEXCEEDED ->
            [ok |-> TRUE, kind |-> "dict", val |-> [data |-> <<ListRow(<<<<"a">>>>)>>]]
      [] OTHER -> [ok |-> FALSE, kind |-> "", val |-> <<>>]

\* rows[:n]
take(rows, n) == SubSeq(rows, 1, IF Len(rows) < n THEN Len(rows) ELSE n)

\* for row in body_rows: self.create_md_row(row)
RECURSIVE body_rows(_, _)
body_rows(self, rows) ==
    IF rows = <<>> THEN self
    ELSE body_rows(create_md_row(self, Head(rows), FALSE), Tail(rows))

\* if rows: header_row, *body_rows = rows ...
table_rows(self, rows) ==
    IF rows = <<>> THEN self
    ELSE body_rows(create_md_row(self, Head(rows), TRUE), Tail(rows))

build_table(self, msg) ==
    LET j == json_loads(msg)
        lines == split(msg, "\n")
    IN  CASE ~j.ok -> table_rows(self, [i \in 1..Len(lines) |-> StrRow(lines[i])])
          [] j.ok /\ j.kind # "dict" -> Raise(self, "TypeError")
          [] j.ok /\ j.kind = "dict" /\ "exceeded" \notin DOMAIN j.val ->
                Raise(self, "KeyError")
          [] j.ok /\ j.kind = "dict" /\ "exceeded" \in DOMAIN j.val
               /\ "data" \notin DOMAIN j.val -> Raise(self, "KeyError")
          [] OTHER ->
                table_rows(self, IF j.val.exceeded # -1 THEN take(j.val.data, 20)
                                 ELSE j.val.data)

\* Whether pat occurs in s at position i.
occurs(s, pat, i) ==
    i + Len(pat) - 1 <= Len(s) /\ SubSeq(s, i, i + Len(pat) - 1) = pat

least(S) == CHOOSE i \in S : \A k \in S : i <= k
greatest(S) == CHOOSE i \in S : \A k \in S : i >= k

SVG_OPEN == <<"<", "s", "v", "g">>
SVG_CLOSE == <<"<", "/", "s", "v", "g", ">">>
SVG_EMPTY == <<"<", "s", "v", "g", ">", "<", "/", "s", "v", "g", ">">>
BASE64 == <<"b", "a", "s", "e", "6", "4", ",">>

\* LegacyConverter.find_image: re.search('(?s)<svg.*</svg>', msg), the
\* leftmost '<svg' that a '</svg>' follows, up to the last '</svg>'.
find_image_legacy(msg) ==
    LET closes(i) == {j \in (i + Len(SVG_OPEN))..Len(msg) : occurs(msg, SVG_CLOSE, j)}
        starts == {i \in 1..Len(msg) : occurs(msg, SVG_OPEN, i) /\ closes(i) # {}}
        i0 == least(starts)
        group0 == SubSeq(msg, i0, greatest(closes(i0)) + Len(SVG_CLOSE) - 1)
    IN  IF starts = {} THEN None
        ELSE IF group0 = SVG_EMPTY THEN None
        ELSE group0

\* NewConverter.find_image: re.search('base64,(.*?)"', msg), the leftmost
\* 'base64,' with a '"' after it on the same line, up to the first such '"'.
find_image_new(msg) ==
    LET quotes(i) ==
            {j \in (i + Len(BASE64))..Len(msg) :
                /\ msg[j] = "\""
                /\ \A k \in (i + Len(BASE64))..(j - 1) : msg[k] # "\n"}
        starts == {i \in 1..Len(msg) : occurs(msg, BASE64, i) /\ quotes(i) # {}}
        i0 == least(starts)
    IN  IF starts = {} THEN None
        ELSE SubSeq(msg, i0 + Len(BASE64), least(quotes(i0)) - 1)

find_image(self, msg) ==
    IF self.variant = "legacy" THEN find_image_legacy(msg) ELSE find_image_new(msg)

\* os.path.join(directory, 'images')
path_join(dir, name) ==
    IF dir[Len(dir)] = "/" THEN dir \o name ELSE dir \o <<"/">> \o name

IMAGES == <<"i", "m", "a", "g", "e", "s">>

image_file(self, n) ==
    LET images_path == IF self.directory # <<>> THEN path_join(self.directory, IMAGES)
                       ELSE IMAGES
    IN  images_path \o <<"/", "o", "u", "t", "p", "u", "t", "_">> \o str_int(n) \o <<".", "p", "n", "g">>

build_image_stale(self, msg) ==
    IF find_image(self, msg) = None THEN self
    ELSE [self EXCEPT !.files = Append(@, image_file(self, self.index + 1)),
                      !.out = Append(@, <<"\n", "!", "[", "p", "n", "g", "]", "(">> \o image_file(self, self.index + 1)
                                        \o <<")", "\n">>)]

build_image(self, msg) ==
    LET result == find_image(self, msg)
        idx == self.index + 1
    IN  IF result = None THEN self
        ELSE [self EXCEPT !.index = idx,
                          !.files = Append(@, image_file(self, idx)),
                          !.out = Append(@, <<"\n", "!", "[", "p", "n", "g", "]", "(">> \o image_file(self, idx)
                                            \o <<")", "\n">>)]

(***************************************************************************)
(* process_results.  A paragraph is a record with any of its keys; a str   *)
(* that the code only compares as a whole (a status code, an output type,  *)
(* a date text) is written as a TLA+ string.                               *)
(***************************************************************************)
MARKER == <<":", "h", "e", "a", "v", "y", "_", "e", "x", "c", "l", "a", "m", "a", "t", "i", "o", "n", "_", "m", "a", "r", "k", ":">>

\* self.output_options[type](msg), for a type in self.output_options
OutputTypes == {"HTML", "TEXT", "TABLE"}

output_option(self, type, msg) ==
    CASE type = "HTML" -> build_image(self, msg)
      [] type = "TEXT" -> build_repl_result(self, msg)
      [] type = "TABLE" -> build_table(self, msg)

process_results_legacy(self, paragraph) ==
    LET r == paragraph.result
    IN  IF "result" \notin DOMAIN paragraph THEN self
        ELSE IF "code" \notin DOMAIN r THEN Raise(self, "KeyError")
        ELSE IF r.code = "SUCCESS" /\ "msg" \notin DOMAIN r THEN Raise(self, "KeyError")
        ELSE IF r.code = "SUCCESS" /\ r.msg # <<>>
             THEN IF "type" \notin DOMAIN r THEN Raise(self, "KeyError")
                  ELSE IF r.type \in OutputTypes THEN output_option(self, r.type, r.msg)
                  ELSE self
        ELSE IF r.code = "ERROR" THEN [self EXCEPT !.out = Append(@, MARKER)]
        ELSE self

process_results_new(self, paragraph) ==
    LET segments == split(paragraph.config.editorMode, "/")
        mode == segments[Len(segments)]
        r == paragraph.results
        msg == r.msg[1]
    IN  IF "config" \notin DOMAIN paragraph THEN Raise(self, "KeyError")
        ELSE IF "editorMode" \notin DOMAIN paragraph.config THEN self
        ELSE IF "results" \notin DOMAIN paragraph THEN self
        ELSE IF "code" \notin DOMAIN r THEN Raise(self, "KeyError")
        ELSE IF r.code # "SUCCESS" THEN self
        ELSE IF "msg" \notin DOMAIN r THEN Raise(self, "KeyError")
        ELSE IF r.msg = <<>> THEN self
        ELSE IF mode \in {<<"t", "e", "x", "t">>, <<"m", "a", "r", "k", "d", "o", "w", "n">>} THEN self
        ELSE IF "type" \notin DOMAIN msg THEN Raise(self, "KeyError")
        ELSE IF msg.type \notin OutputTypes THEN self
        ELSE IF "data" \notin DOMAIN msg THEN Raise(self, "KeyError")
        ELSE output_option(self, msg.type, msg.data)

process_results(self, paragraph) ==
    IF self.variant = "legacy" THEN process_results_legacy(self, paragraph)
    ELSE process_results_new(self, paragraph)

RESULT_KEY(self) == IF self.variant = "legacy" THEN "result" ELSE "results"

(***************************************************************************)
(* Inputs.                                                                 *)
(***************************************************************************)
Empty == [k \in {} |-> <<>>]

\* The records with at most the key k, its value one of vals.
Opt(k, vals) == {Empty} \cup {k :> v : v \in vals}

\* The str values of at most n characters of alphabet.
Strs(alphabet, n) == UNION {[1..k -> alphabet] : k \in 0..n}

Users == {<<"a", "m", "y">>, <<"b", "o", "b">>}
Names == {<<"n", "b">>}
Titles == {<<"L", "o", "a", "d">>}
Directories == {<<>>, <<"n", "b">>}

Configs ==
    {Empty} \cup {[editorMode |-> m] :
                    m \in {MODE_SCALA, MODE_PYTHON, MODE_TEXT, MODE_MARKDOWN, MODE_SQL}}

\* Paragraph texts: the ones of test_parse_input_text, a few more, and every
\* str of at most MaxTextLen characters of TextAlphabet.
TextAlphabet == {"%", " ", "\n", "m", "d"}
ExampleTexts ==
    {<<"%", "m", "d">>, <<"%", "m", "d", " ", "t", "e", "x", "t">>, <<" ", "%", "m", "d", " ", " ", " ", "t", "e", "x", "t">>, <<" ", "s", "a", "m", "p", "l", "e", " ", "t", "e", "x", "t">>, <<"s", "%", "a", "m", "p", "l", "e">>,
     <<"%", "p", "y", "s", "p", "a", "r", "k", " ", "x", " ", "=", " ", "1">>, <<"%", "s", "q", "l", "\n", "s", "e", "l", "e", "c", "t", " ", "1", " ">>, <<"v", "a", "l", " ", "x", " ", "=", " ", "1", "\n">>,
     <<"%", "m", "d", " ">>, <<"%", " ", "m", "d">>, <<"\n", "%", "m", "d", "\n", "\n", "x", " ">>}
Texts == Strs(TextAlphabet, MaxTextLen) \cup ExampleTexts

\* Rows: every str of at most MaxRowLen characters of RowAlphabet, and every
\* list of at most MaxRowLen fields of RowFields.
RowAlphabet == {"a", "\t", "|"}
RowFields == {<<>>, <<"a">>, <<"b", "|">>}
Rows ==
    {StrRow(s) : s \in Strs(RowAlphabet, MaxRowLen) \cup {<<"t", "e", "s", "t", "\t", "\t", "t", "e", "s", "t", "2">>}}
    \cup {ListRow(l) : l \in Strs(RowFields, MaxRowLen)}

\* HTML messages.
IMG_NONE == <<"n", "o", "t", "h", "i", "n", "g", " ", "h", "e", "r", "e">>
IMG_EMPTY_SVG == <<"<", "d", "i", "v", ">", "<", "s", "v", "g", ">", "<", "/", "s", "v", "g", ">", "<", "/", "d", "i", "v", ">", "\n">>
IMG_SVG == <<"<", "s", "v", "g", ">", "<", "t", "e", "x", "t", ">", "T", "<", "/", "t", "e", "x", "t", ">", "<", "/", "s", "v", "g", ">">>
IMG_TWO_SVG == <<"<", "p", ">", "<", "s", "v", "g", ">", "a", "<", "/", "s", "v", "g", ">", "\n", "<", "s", "v", "g", ">", "b", "<", "/", "s", "v", "g", ">", "<", "/", "p", ">">>
IMG_OPEN_SVG == <<"<", "s", "v", "g", ">">>
IMG_BASE64 == <<"<", "i", "m", "g", " ", "s", "r", "c", "=", "\"", "d", "a", "t", "a", ":", "i", "m", "a", "g", "e", "/", "p", "n", "g", ";", "b", "a", "s", "e", "6", "4", ",", "i", "V", "B", "O", "\"", " ", "/", ">">>
IMG_BASE64_NEXT_LINE == <<"b", "a", "s", "e", "6", "4", ",", "\n", "\"", "<", "i", "m", "g", " ", "s", "r", "c", "=", "\"", "b", "a", "s", "e", "6", "4", ",", "Q", "U", "J", "D", "\"">>
IMG_BASE64_OPEN == <<"b", "a", "s", "e", "6", "4", ",", "i", "V", "B", "O">>
ImageMsgs ==
    {IMG_NONE, IMG_EMPTY_SVG, IMG_SVG, IMG_TWO_SVG, IMG_OPEN_SVG, IMG_BASE64,
     IMG_BASE64_NEXT_LINE, IMG_BASE64_OPEN}

\* The messages in which find_image of the variant finds an image.
MsgsWithImage(v) ==
    IF v = "legacy" THEN {IMG_SVG, IMG_TWO_SVG} ELSE {IMG_BASE64, IMG_BASE64_NEXT_LINE}

\* TEXT messages.
TextMsgs == {<<"o", "n", "e", " ", "r", "i", "n", "g">>, <<" ", "a", " ", "\n", "\n", "b", "\t">>}

\* Result blocks of the legacy schema: any of code, msg, type.
LegacyResults ==
    {c @@ m @@ t :
        c \in Opt("code", {"SUCCESS", "ERROR", "INCOMPLETE"}),
        m \in Opt("msg", {<<>>, IMG_SVG, TBL_TSV, TBL_NUMBER} \cup TextMsgs),
        t \in Opt("type", OutputTypes \cup {"ANGULAR"})}

\* Result blocks of the new schema: any of code, msg; msg a list whose first
\* element has any of type, data.
NewMsgs ==
    {t @@ d :
        t \in Opt("type", OutputTypes \cup {"ANGULAR"}),
        d \in Opt("data", {IMG_BASE64, TBL_TSV, TBL_NUMBER} \cup TextMsgs)}
NewResults ==
    {c @@ m :
        c \in Opt("code", {"SUCCESS", "ERROR", "INCOMPLETE"}),
        m \in Opt("msg", {<<>>} \cup {<<x>> : x \in NewMsgs})}

\* The paragraphs process_results is called with.
ResultParagraphs(v) ==
    IF v = "legacy" THEN {r @@ c : r \in Opt("result", LegacyResults), c \in Opt("config", Configs)}
    ELSE {r @@ c : r \in Opt("results", NewResults), c \in Opt("config", Configs)}

(***************************************************************************)
(* The state after __init__ with the defaults of user, date_created,       *)
(* date_updated and language.                                              *)
(***************************************************************************)
Constructed(dirs) ==
    /\ variant \in {"legacy", "new"}
    /\ directory \in dirs
    /\ index = 0
    /\ user = <<"a", "n", "o", "n", "y", "m", "o", "u", "s">>
    /\ date_created = NA
    /\ date_updated = NA
    /\ language = None
    /\ out = <<>>
    /\ files = <<>>
    /\ fout = None
    /\ exc = "none"
    /\ pc = "idle"
    /\ para = Empty
    /\ nparagraphs = 0
    /\ ncalls = 0
    /\ last = [op |-> "__init__", arg |-> <<>>, pre |-> Self]
    /\ seen_created = {}
    /\ seen_updated = {}
    /\ found = 0
    /\ origin = <<>>

\* The converter of the tests' fixture: no output directory.
Init == Constructed({<<>>})

\* A converter with or without an output directory.
InitDirectory == Constructed(Directories)

\* The object after a method: self's fields become the variables.
Commit(self) ==
    /\ index' = self.index
    /\ user' = self.user
    /\ date_created' = self.date_created
    /\ date_updated' = self.date_updated
    /\ language' = self.language
    /\ out' = self.out
    /\ files' = self.files
    /\ exc' = self.exc
    /\ UNCHANGED <<variant, directory>>

\* A method called on the object from outside convert, as the tests do.
Called(op, arg) ==
    /\ pc = "idle"
    /\ exc = "none"
    /\ last' = [op |-> op, arg |-> arg, pre |-> Self]
    /\ UNCHANGED <<fout, pc, para, nparagraphs, origin>>

(***************************************************************************)
(* Methods called one at a time on a converter, as the tests call them.    *)
(***************************************************************************)
CallProcessDateCreated ==
    /\ ncalls < MaxDateCalls
    /\ ncalls' = ncalls + 1
    /\ \E text \in DateTexts :
        /\ Called("process_date_created", text)
        /\ Commit(process_date_created(Self, text))
        /\ seen_created' = seen_created \cup {parse(text).date}
        /\ UNCHANGED <<seen_updated, found>>

CallProcessDateUpdated ==
    /\ ncalls < MaxDateCalls
    /\ ncalls' = ncalls + 1
    /\ \E text \in DateTexts :
        /\ Called("process_date_updated", text)
        /\ Commit(process_date_updated(Self, text))
        /\ seen_updated' = seen_updated \cup {parse(text).date}
        /\ UNCHANGED <<seen_created, found>>

\* process_config appends nothing to out and is not counted in ncalls.
CallProcessConfig ==
    /\ UNCHANGED ncalls
    /\ \E config \in Configs :
        /\ Called("process_config", config)
        /\ Commit(process_config(Self, config))
        /\ UNCHANGED <<seen_created, seen_updated, found>>

CallProcessInput ==
    /\ ncalls < MaxInputCalls
    /\ ncalls' = ncalls + 1
    /\ \E text \in Texts :
        /\ Called("process_input", text)
        /\ Commit(process_input(Self, text))
        /\ UNCHANGED <<seen_created, seen_updated, found>>

CallCreateMdRow ==
    /\ ncalls < MaxRowCalls
    /\ ncalls' = ncalls + 1
    /\ \E row \in Rows, header \in BOOLEAN :
        /\ Called("create_md_row", [row |-> row, header |-> header])
        /\ Commit(create_md_row(Self, row, header))
        /\ UNCHANGED <<seen_created, seen_updated, found>>

CallBuildTable ==
    /\ ncalls < MaxTableCalls
    /\ ncalls' = ncalls + 1
    /\ \E msg \in TableMsgs :
        /\ Called("build_table", msg)
        /\ Commit(build_table(Self, msg))
        /\ UNCHANGED <<seen_created, seen_updated, found>>

CallBuildImage ==
    /\ ncalls < MaxImageCalls
    /\ ncalls' = ncalls + 1
    /\ \E msg \in ImageMsgs :
        /\ Called("build_image", msg)
        /\ Commit(build_image(Self, msg))
        /\ found' = found + (IF msg \in MsgsWithImage(variant) THEN 1 ELSE 0)
        /\ UNCHANGED <<seen_created, seen_updated>>

CallProcessResults ==
    /\ ncalls < MaxResultCalls
    /\ ncalls' = ncalls + 1
    /\ \E paragraph \in ResultParagraphs(variant) :
        /\ Called("process_results", paragraph)
        /\ Commit(process_results(Self, paragraph))
        /\ UNCHANGED <<seen_created, seen_updated, found>>

NextDates == CallProcessDateCreated \/ CallProcessDateUpdated
SpecDates == Init /\ [][NextDates]_vars

NextInput == CallProcessConfig \/ CallProcessInput
SpecInput == Init /\ [][NextInput]_vars

NextRow == CallCreateMdRow
SpecRow == Init /\ [][NextRow]_vars

NextTable == CallBuildTable
SpecTable == Init /\ [][NextTable]_vars

NextImage == CallBuildImage
SpecImage == InitDirectory /\ [][NextImage]_vars

NextResults == CallProcessResults
SpecResults == Init /\ [][NextResults]_vars

(***************************************************************************)
(* convert: build_markdown_body, one action for each key of the loop body, *)
(* then build_header and build_output.  A paragraph's keys are drawn when  *)
(* the loop body reaches them; para keeps the ones read again later.       *)
(***************************************************************************)
WalkUsers == Opt("user", Users)
WalkCreated == Opt("dateCreated", {"Feb 28, 2017 3:44:54 PM", BadDateText})
WalkUpdated == Opt("dateUpdated", {"2017-02-28T17:44:54"})
WalkTitles == Opt("title", Titles)
WalkConfigs == Opt("config", {Empty, [editorMode |-> MODE_PYTHON],
                              [editorMode |-> MODE_TEXT]})
WalkTexts == Opt("text", {<<"%", "m", "d", " ", "t", "e", "x", "t">>, <<" ", "s", "a", "m", "p", "l", "e", " ", "t", "e", "x", "t">>})
WalkResults(v) ==
    IF v = "legacy"
    THEN Opt("result", {[code |-> "ERROR", msg |-> <<"b", "o", "o", "m">>],
                        [code |-> "SUCCESS", msg |-> <<"o", "n", "e", " ", "r", "i", "n", "g">>, type |-> "TEXT"],
                        [code |-> "SUCCESS", msg |-> <<"o", "n", "e", " ", "r", "i", "n", "g">>]})
    ELSE Opt("results", {[code |-> "ERROR", msg |-> <<>>],
                         [code |-> "SUCCESS",
                          msg |-> <<[type |-> "TEXT", data |-> <<"o", "n", "e", " ", "r", "i", "n", "g">>]>>],
                         [code |-> "SUCCESS", msg |-> <<[data |-> <<"o", "n", "e", " ", "r", "i", "n", "g">>]>>]})

\* The loop body's order: 'user', then key_options in order, then the result key.
key_after_text_first(key) ==
    CASE key = "user" -> "dateCreated"
      [] key = "dateCreated" -> "dateUpdated"
      [] key = "dateUpdated" -> "title"
      [] key = "title" -> "text"
      [] key = "text" -> "config"
      [] key = "config" -> "result"
      [] key = "result" -> "loop"

key_after(key) ==
    CASE key = "user" -> "dateCreated"
      [] key = "dateCreated" -> "dateUpdated"
      [] key = "dateUpdated" -> "title"
      [] key = "title" -> "config"
      [] key = "config" -> "text"
      [] key = "text" -> "result"
      [] key = "result" -> "loop"

\* handler(paragraph[key]) of key_options
handler(self, key, value) ==
    CASE key = "dateCreated" -> process_date_created(self, value)
      [] key = "dateUpdated" -> process_date_updated(self, value)
      [] key = "title" -> process_title(self, value)
      [] key = "config" -> process_config(self, value)
      [] key = "text" -> process_input(self, value)

\* One  if key in paragraph: ...  of the loop body, p the paragraph's part
\* with that key, self the object after it.
Step(key, p, self) ==
    /\ pc = key
    /\ exc = "none"
    /\ Commit(self)
    /\ pc' = IF self.exc = "none" THEN key_after(key) ELSE pc
    /\ para' = IF key = "result" THEN Empty
               ELSE IF key \in {"config", "text"} THEN p @@ para ELSE para
    /\ origin' = origin \o [i \in 1..(Len(self.out) - Len(out)) |-> <<nparagraphs, key>>]
    /\ UNCHANGED <<fout, nparagraphs, ncalls, last, found>>

Convert ==
    /\ pc = "idle"
    /\ \E name \in Names : last' = [op |-> "convert", arg |-> name, pre |-> Self]
    /\ pc' = "loop"
    /\ UNCHANGED <<variant, directory, index, user, date_created, date_updated,
                   language, out, files, fout, exc, para, nparagraphs, ncalls,
                   seen_created, seen_updated, found, origin>>

NextParagraph ==
    /\ pc = "loop"
    /\ nparagraphs < MaxParagraphs
    /\ nparagraphs' = nparagraphs + 1
    /\ pc' = "user"
    /\ UNCHANGED <<variant, directory, index, user, date_created, date_updated,
                   language, out, files, fout, exc, para, ncalls, last,
                   seen_created, seen_updated, found, origin>>

StepUser ==
    /\ \E p \in WalkUsers :
        Step("user", p, IF "user" \in DOMAIN p THEN [Self EXCEPT !.user = p.user] ELSE Self)
    /\ UNCHANGED <<seen_created, seen_updated>>

StepDateCreated ==
    \E p \in WalkCreated :
        /\ Step("dateCreated", p,
                IF "dateCreated" \in DOMAIN p THEN handler(Self, "dateCreated", p.dateCreated)
                ELSE Self)
        /\ seen_created' = IF "dateCreated" \in DOMAIN p /\ parse(p.dateCreated).ok
                           THEN seen_created \cup {parse(p.dateCreated).date}
                           ELSE seen_created
        /\ UNCHANGED seen_updated

StepDateUpdated ==
    \E p \in WalkUpdated :
        /\ Step("dateUpdated", p,
                IF "dateUpdated" \in DOMAIN p THEN handler(Self, "dateUpdated", p.dateUpdated)
                ELSE Self)
        /\ seen_updated' = IF "dateUpdated" \in DOMAIN p /\ parse(p.dateUpdated).ok
                           THEN seen_updated \cup {parse(p.dateUpdated).date}
                           ELSE seen_updated
        /\ UNCHANGED seen_created

StepTitle ==
    /\ \E p \in WalkTitles :
        Step("title", p, IF "title" \in DOMAIN p THEN handler(Self, "title", p.title) ELSE Self)
    /\ UNCHANGED <<seen_created, seen_updated>>

StepConfig ==
    /\ \E p \in WalkConfigs :
        Step("config", p,
             IF "config" \in DOMAIN p THEN handler(Self, "config", p.config) ELSE Self)
    /\ UNCHANGED <<seen_created, seen_updated>>

StepText ==
    /\ \E p \in WalkTexts :
        Step("text", p, IF "text" \in DOMAIN p THEN handler(Self, "text", p.text) ELSE Self)
    /\ UNCHANGED <<seen_created, seen_updated>>

\* if self._RESULT_KEY in paragraph: self.process_results(paragraph)
StepResult ==
    /\ \E p \in WalkResults(variant) :
        Step("result", p,
             IF RESULT_KEY(Self) \in DOMAIN p THEN process_results(Self, p @@ para)
             ELSE Self)
    /\ UNCHANGED <<seen_created, seen_updated>>

\* The loop is over: build_markdown_body returns and convert calls build_header.
BuildHeader ==
    /\ pc = "loop"
    /\ exc = "none"
    /\ Commit(build_header(Self, last.arg))
    /\ origin' = [i \in 1..Len(header_lines(Self, last.arg)) |-> <<0, "header">>] \o origin
    /\ pc' = "output"
    /\ UNCHANGED <<fout, para, nparagraphs, ncalls, last, seen_created, seen_updated, found>>

BuildOutput ==
    /\ pc = "output"
    /\ fout' = build_output(Self)
    /\ pc' = "done"
    /\ UNCHANGED <<variant, directory, index, user, date_created, date_updated,
                   language, out, files, exc, para, nparagraphs, ncalls, last,
                   seen_created, seen_updated, found, origin>>

Next ==
    \/ Convert
    \/ NextParagraph
    \/ StepUser
    \/ StepDateCreated
    \/ StepDateUpdated
    \/ StepTitle
    \/ StepConfig
    \/ StepText
    \/ StepResult
    \/ BuildHeader
    \/ BuildOutput

Spec == Init /\ [][Next]_vars

(***************************************************************************)
(* The claims.                                                             *)
(***************************************************************************)
\* a is no later than b: the two compare, and a <= b.
NoLater(a, b) == comparable(a, b) /\ a.hour <= b.hour

\* What a call of one of the two date methods must leave as it was, other
\* being the date that is not its own.
DateFrame(other) ==
    /\ other
    /\ user = last.pre.user
    /\ language = last.pre.language
    /\ index = last.pre.index
    /\ out = last.pre.out

\* C3: after any sequence of process_date_created and process_date_updated
\* calls with parseable dates on a converter whose dates start as 'N/A',
\* date_created is 'N/A' iff process_date_created was never called and is
\* otherwise the earliest of the dates passed to it, date_updated is 'N/A'
\* iff process_date_updated was never called and is otherwise the latest of
\* the dates passed to it, and neither call changes the other date, the
\* user, the language, the index or out.
C3_DateTracker ==
    /\ date_created = NA <=> seen_created = {}
    /\ seen_created # {} =>
            /\ date_created \in seen_created
            /\ \A d \in seen_created : NoLater(date_created, d)
    /\ date_updated = NA <=> seen_updated = {}
    /\ seen_updated # {} =>
            /\ date_updated \in seen_updated
            /\ \A d \in seen_updated : NoLater(d, date_updated)
    /\ last.op = "process_date_created" =>
            DateFrame(date_updated = last.pre.date_updated)
    /\ last.op = "process_date_updated" =>
            DateFrame(date_created = last.pre.date_created)

\* The positions of s that hold no whitespace, from position i on.
Inked(s, i) == {k \in i..Len(s) : s[k] \notin Whitespace}

\* The positions of s that hold whitespace, from position i on.
Blank(s, i) == {k \in i..Len(s) : s[k] \in Whitespace}

\* The first whitespace-delimited token of s (s has one), and what follows
\* the whitespace run after it: None when nothing does.
TokenStart(s) == least(Inked(s, 1))
TokenEnd(s) ==
    IF Blank(s, TokenStart(s)) = {} THEN Len(s) ELSE least(Blank(s, TokenStart(s))) - 1
FirstToken(s) == SubSeq(s, TokenStart(s), TokenEnd(s))
AfterToken(s) ==
    IF Inked(s, TokenEnd(s) + 1) = {} THEN None
    ELSE SubSeq(s, least(Inked(s, TokenEnd(s) + 1)), Len(s))

\* s without its leading and trailing whitespace.
Trimmed(s) ==
    IF Inked(s, 1) = {} THEN <<>> ELSE SubSeq(s, least(Inked(s, 1)), greatest(Inked(s, 1)))

\* The entries process_input is to append for text, default the language
\* inferred so far (None if none was).
InputLanguage(text, default) ==
    IF Inked(text, 1) # {} /\ FirstToken(text)[1] = "%"
    THEN SubSeq(FirstToken(text), 2, Len(FirstToken(text)))
    ELSE IF default = None THEN SCALA ELSE default
InputBody(text) ==
    IF Inked(text, 1) # {} /\ FirstToken(text)[1] = "%" THEN AfterToken(text)
    ELSE Trimmed(text)
InputEntries(text, default) ==
    LET lang == InputLanguage(text, default)
        body == IF InputBody(text) = None THEN <<>> ELSE <<InputBody(text)>>
    IN  IF lang = MD THEN body
        ELSE <<FENCE \o (IF lang = PYSPARK THEN PYTHON ELSE lang)>> \o body \o <<FENCE>>

\* C8: process_input classifies the text by its first whitespace-delimited
\* token.  Without a leading '%' the language is the inferred default, or
\* 'scala' if none was inferred, and the body the trimmed text; with it the
\* language is the token without the '%' and the body what follows the
\* whitespace run (None if nothing does).  'md' appends the body alone (nothing
\* for None), 'pyspark' is fenced as 'python', any other language appends an
\* opening fence, the body unless None, and a closing fence.  The default is
\* what the last process_config with editorMode ace/mode/scala or
\* ace/mode/python set: other configs leave it as it was.
C8_InputClassifier ==
    /\ last.op = "process_input" =>
            out = last.pre.out \o InputEntries(last.arg, last.pre.language)
    /\ last.op = "process_config" =>
            /\ out = last.pre.out
            /\ language =
                 IF "editorMode" \in DOMAIN last.arg /\ last.arg.editorMode = MODE_SCALA
                 THEN SCALA
                 ELSE IF "editorMode" \in DOMAIN last.arg /\ last.arg.editorMode = MODE_PYTHON
                 THEN PYTHON
                 ELSE last.pre.language

\* C8 witness: after a config with ace/mode/python, a text with no directive
\* was fenced as python, its body trimmed.
C8_Witness ==
    /\ last.op = "process_input"
    /\ last.arg = <<" ", "s", "a", "m", "p", "l", "e", " ", "t", "e", "x", "t">>
    /\ last.pre.language = PYTHON
    /\ out = <<FENCE \o PYTHON, <<"s", "a", "m", "p", "l", "e", " ", "t", "e", "x", "t">>, FENCE>>

\* How many entries of s are the character c.
Count(s, c) == Cardinality({i \in 1..Len(s) : s[i] = c})

\* The fields of a row: of a str, the pieces between its tabs.
RowFieldsOf(row) == IF row.isstr THEN split(row.val, "\t") ELSE row.val

\* '|f1|...|fN|' and '|-|...|-|' for N fields.
RowLine(fields) == <<"|">> \o join(fields, <<"|">>) \o <<"|">>
DashLine(n) == <<"|">> \o join([i \in 1..n |-> <<"-">>], <<"|">>) \o <<"|">>

\* The sum of Count(fields[i], c) over the fields.
RECURSIVE CountIn(_, _)
CountIn(fields, c) ==
    IF fields = <<>> THEN 0 ELSE Count(Head(fields), c) + CountIn(Tail(fields), c)

\* C9: create_md_row appends at most one entry.  An empty row appends
\* nothing; a row of one field appends the field as it is; a row of N > 1
\* fields (the pieces between the tabs of a str, empty ones kept, or the
\* elements of a list) appends '|f1|...|fN|', which has N + 1 pipes besides
\* those of the fields, and with header=True the same entry goes on, after a
\* newline, with one line of N dash cells '|-|...|-|'.
C9_RowFormatter ==
    last.op = "create_md_row" =>
        LET row == last.arg.row
            fields == RowFieldsOf(row)
            n == Len(fields)
            line == RowLine(fields)
        IN  /\ row.isstr => join(fields, <<"\t">>) = row.val /\ CountIn(fields, "\t") = 0
            /\ row.val = <<>> => out = last.pre.out
            /\ row.val # <<>> /\ n = 1 => out = Append(last.pre.out, fields[1])
            /\ row.val # <<>> /\ n > 1 =>
                /\ Count(line, "|") = n + 1 + CountIn(fields, "|")
                /\ Count(DashLine(n), "-") = n
                /\ Count(DashLine(n), "|") = n + 1
                /\ out = Append(last.pre.out,
                                IF last.arg.header THEN line \o <<"\n">> \o DashLine(n)
                                ELSE line)

\* C9 witness: a header row of three fields, one of them empty, was appended
\* as one entry.
C9_Witness ==
    /\ last.op = "create_md_row"
    /\ last.arg.header
    /\ last.arg.row = StrRow(<<"t", "e", "s", "t", "\t", "\t", "t", "e", "s", "t", "2">>)
    /\ out = <<<<"|", "t", "e", "s", "t", "|", "|", "t", "e", "s", "t", "2", "|", "\n", "|", "-", "|", "-", "|", "-", "|">>>>

\* The decimal numeral of k < 100.
Numeral(k) == IF k < 10 THEN <<Digit(k)>> ELSE <<Digit(k \div 10), Digit(k % 10)>>

\* images/output_k.png, under the output directory if there is one.
OutputPng(k) ==
    (IF directory = <<>> THEN <<>> ELSE directory \o <<"/">>)
    \o <<"i", "m", "a", "g", "e", "s", "/", "o", "u", "t", "p", "u", "t", "_">> \o Numeral(k) \o <<".", "p", "n", "g">>

OthersUntouched ==
    /\ index = last.pre.index
    /\ user = last.pre.user
    /\ date_created = last.pre.date_created
    /\ date_updated = last.pre.date_updated
    /\ language = last.pre.language
    /\ files = last.pre.files
    /\ exc = "none"

\* The result block of the paragraph process_results was last called with
\* (Empty if the paragraph has none).
LastResult ==
    IF RESULT_KEY(Self) \in DOMAIN last.arg THEN last.arg[RESULT_KEY(Self)] ELSE Empty

\* C1: in either variant, process_results on a paragraph whose result code is
\* ERROR appends the one entry ':heavy_exclamation_mark:', whatever msg is,
\* and changes nothing else.
C1_ErrorMarker ==
    (/\ last.op = "process_results"
     /\ "code" \in DOMAIN LastResult
     /\ LastResult.code = "ERROR")
    => /\ out = Append(last.pre.out, MARKER)
       /\ OthersUntouched

\* The body build_repl_result is to append for msg: the banner, then every
\* line of msg stripped and commented.
ReplBody(msg) ==
    LET parts == split(msg, "\n")
    IN  join(<<<<"#", " ", "O", "u", "t", "p", "u", "t", ":">>, <<"#", " ", "-", "-", "-", "-", "-", "-", "-">>>>
             \o [i \in 1..Len(parts) |-> <<"#", " ">> \o Trimmed(parts[i])], <<"\n">>)

\* C2: LegacyConverter.process_results on a result with code SUCCESS, type
\* TEXT and a non-empty msg appends three entries: the fence of python, the
\* banner '# Output:', '# -------' followed by the lines of msg, each stripped
\* and commented, and the closing fence; on a paragraph with no result, or
\* with SUCCESS and an empty msg, it appends nothing.
C2_ReplText ==
    (last.op = "process_results" /\ variant = "legacy") =>
        /\ (/\ DOMAIN LastResult = {"code", "msg", "type"}
            /\ LastResult.code = "SUCCESS"
            /\ LastResult.type = "TEXT"
            /\ LastResult.msg # <<>>)
           => out = last.pre.out \o <<FENCE \o PYTHON, ReplBody(LastResult.msg), FENCE>>
        /\ "result" \notin DOMAIN last.arg => out = last.pre.out
        /\ (/\ {"code", "msg"} \subseteq DOMAIN LastResult
            /\ LastResult.code = "SUCCESS"
            /\ LastResult.msg = <<>>)
           => out = last.pre.out

\* The TABLE messages that are a JSON object with 'data' and 'exceeded', and
\* the rows build_table is to render for a message.
TableObjects == {TBL_ALL, TBL_CUT, TBL_NODATA}
TableRowsOf(msg) ==
    LET data == json_loads(msg).val.data
        lines == split(msg, "\n")
    IN  IF msg \in TableObjects
        THEN IF json_loads(msg).val.exceeded # -1 THEN take(data, 20) ELSE data
        ELSE [i \in 1..Len(lines) |-> StrRow(lines[i])]

\* C10: build_table never fails on a message.  It renders the rows of 'data'
\* of a JSON object with 'data' and 'exceeded' (the first 20 if 'exceeded' is
\* not -1) and, for every other message, the lines of the message; the first
\* row as the header row, the others as plain rows.
C10_TableFallback ==
    last.op = "build_table" =>
        /\ exc = "none"
        /\ Self = table_rows(last.pre, TableRowsOf(last.arg))

\* C4: a paragraph may have any subset of the recognized keys, and of the
\* fields of its result block: build_markdown_body never fails because a key
\* is absent.
C4_MissingKeys == pc # "idle" => exc # "KeyError"

\* The place of a key in the loop body, and of the entries it appends.
Rank(key) ==
    CASE key = "header" -> 0
      [] key = "user" -> 1
      [] key = "dateCreated" -> 2
      [] key = "dateUpdated" -> 3
      [] key = "title" -> 4
      [] key = "config" -> 5
      [] key = "text" -> 6
      [] key = "result" -> 7
      [] OTHER -> 8

\* The entries of out that the key of paragraph number n appended.
RECURSIVE EntriesOf(_, _, _)
EntriesOf(n, key, i) ==
    IF i > Len(out) THEN <<>>
    ELSE (IF origin[i] = <<n, key>> THEN <<out[i]>> ELSE <<>>) \o EntriesOf(n, key, i + 1)

\* C5: paragraphs are handled in list order and, in a paragraph, the keys in
\* the order user, dateCreated, dateUpdated, title, config, text, result.  So
\* in out the entries of a paragraph precede those of every later one, in a
\* paragraph the title precedes the text entries, which precede the result
\* entries, and the text is classified with the default language that the
\* paragraph's own config has set.
C5_Order ==
    /\ Len(origin) = Len(out)
    /\ \A i, j \in 1..Len(origin) :
        i < j => \/ origin[i][1] < origin[j][1]
                 \/ /\ origin[i][1] = origin[j][1]
                    /\ Rank(origin[i][2]) <= Rank(origin[j][2])
    /\ pc \in {"user", "dateCreated", "dateUpdated", "title", "config", "text", "result"} =>
        \A i \in 1..Len(origin) :
            origin[i][1] < nparagraphs \/ Rank(origin[i][2]) < Rank(pc)
    /\ (pc = "result" /\ "config" \in DOMAIN para /\ "editorMode" \in DOMAIN para.config
        /\ para.config.editorMode = MODE_PYTHON) => language = PYTHON
    /\ (pc = "result" /\ "text" \in DOMAIN para) =>
        EntriesOf(nparagraphs, "text", 1) = InputEntries(para.text, language)

\* C5 witness: the second paragraph, with a title, a config of ace/mode/python
\* and a text with no directive, follows a first one that appended a title, a
\* text and a result; its text was fenced as python.
C5_Witness ==
    /\ pc = "result"
    /\ nparagraphs = 2
    /\ EntriesOf(1, "title", 1) # <<>>
    /\ EntriesOf(1, "text", 1) = <<FENCE \o SCALA, <<"s", "a", "m", "p", "l", "e", " ", "t", "e", "x", "t">>, FENCE>>
    /\ EntriesOf(1, "result", 1) # <<>>
    /\ EntriesOf(2, "title", 1) # <<>>
    /\ "config" \in DOMAIN para
    /\ "editorMode" \in DOMAIN para.config
    /\ para.config.editorMode = MODE_PYTHON
    /\ EntriesOf(2, "text", 1) = <<FENCE \o PYTHON, <<"s", "a", "m", "p", "l", "e", " ", "t", "e", "x", "t">>, FENCE>>

\* Whether s is a prefix of t.
IsPrefix(s, t) == Len(s) <= Len(t) /\ SubSeq(t, 1, Len(s)) = s

\* Every line of lines followed by a newline.
RECURSIVE Terminated(_)
Terminated(lines) ==
    IF lines = <<>> THEN <<>> ELSE Head(lines) \o <<"\n">> \o Terminated(Tail(lines))

\* The header of a notebook named title, written by the converter as it is.
HeaderOf(title) ==
    <<<<"-", "-", "-">>,
      <<"t", "i", "t", "l", "e", ":", " ">> \o title,
      <<"a", "u", "t", "h", "o", "r", "(", "s", ")", ":", " ">> \o user,
      <<"t", "a", "g", "s", ":", " ">>,
      <<"c", "r", "e", "a", "t", "e", "d", "_", "a", "t", ":", " ">> \o str_date(date_created),
      <<"u", "p", "d", "a", "t", "e", "d", "_", "a", "t", ":", " ">> \o str_date(date_updated),
      <<"-", "-", "-">>>>

=============================================================================
